---- MODULE Spec2Model ----
(***************************************************************************)
(* Model of the codewave-ui command line runner (src/src/index.ts): the    *)
(* `test-suite` command handler.  It loads one runner thunk per discovered *)
(* suite file, then runs the thunks in slices of `parallelRun`, waiting    *)
(* for every member of a slice with Promise.allSettled.                    *)
(*                                                                         *)
(* JavaScript runs the code between two awaits without interruption, so    *)
(* every action of an executor is "the awaited call settles with outcome   *)
(* o, and the code runs on up to the next awaited call (or to the end)".   *)
(* The position of an executor, pc, names the call it is suspended on.     *)
(* Indices are 1-based here and 0-based in the source.                     *)
(***************************************************************************)
EXTENDS Integers, Sequences, FiniteSets, TLC

(* ------------------------------ bounds -------------------------------- *)
\* suite files of an invocation whose suites hold no test case
MaxSuites == 3
\* test cases of the suite of an invocation that discovers one suite file
MaxCases == 2
\* suite files of an invocation, and test cases of each of them, when
\* several suites with test cases run side by side
MaxBatchSuites == 2
MaxBatchCases == 1
MaxWidth == 2
\* cap on the iterations of the scheduler loop (a width <= 0 never ends it)
MaxIter == MaxSuites + MaxBatchSuites

\* values config.parallelExecution may hold: nothing in the source checks it
Widths == -1..MaxWidth

\* how an awaited call settles: fulfilled, rejected with an Error instance,
\* rejected with a value that is not an instance of Error
Outcomes == {"ok", "Error", "NonError"}

\* the driver calls are awaited outside every try block, so the value they
\* reject with is never looked at: one kind of rejection stands for all
DriverCalls == {"startDriver", "destroyDriverBtc", "destroyDriver"}
OutcomesOf(call) == IF call \in DriverCalls THEN {"ok", "Error"} ELSE Outcomes

(* -------------------- run records (@codewave-ui/core) ------------------ *)
InitialRunnerStatus == "NOT_STARTED"
InitialCaseStatus == "PENDING"

NewTestCase(en) ==
  [enabled |-> en, status |-> InitialCaseStatus, startTime |-> FALSE,
   endTime |-> FALSE, duration |-> "none", exception |-> FALSE,
   screenshot |-> FALSE]

NewRunner(flags) ==
  [status |-> InitialRunnerStatus, startTime |-> FALSE, endTime |-> FALSE,
   duration |-> "none", currentTestCaseIndex |-> 0,
   testCases |-> [k \in 1..Len(flags) |-> NewTestCase(flags[k])]]

\* startNow(): the record is running and its start time is taken
StartNow(rec) == [rec EXCEPT !.status = "RUNNING", !.startTime = TRUE]
\* endNow(): the end time is taken
EndNow(rec) == [rec EXCEPT !.endTime = TRUE]
\* generateDuration(): the duration is end - start
GenerateDuration(rec) == [rec EXCEPT !.duration = "computed"]

(* ----------------------- calls made by an executor --------------------- *)
\* how often each operation was called: for the suite, and for each case
NoCaseCalls ==
  [startDriver |-> 0, BEFORE_CASE |-> 0, body |-> 0, saveScreenshot |-> 0,
   AFTER_CASE |-> 0, destroyDriver |-> 0, info |-> 0]

NoCalls(n) ==
  [runs |-> 0, BEFORE_SUITE |-> 0, AFTER_SUITE |-> 0,
   cases |-> [k \in 1..n |-> NoCaseCalls]]

\* how each awaited call settled ("none": not settled yet); destroyDriverBtc
\* is the destroyDriver call of the BEFORE_CASE catch block
NoCaseResults ==
  [startDriver |-> "none", BEFORE_CASE |-> "none", body |-> "none",
   saveScreenshot |-> "none", destroyDriverBtc |-> "none",
   AFTER_CASE |-> "none", destroyDriver |-> "none"]

NoResults(n) ==
  [BEFORE_SUITE |-> "none", AFTER_SUITE |-> "none",
   cases |-> [k \in 1..n |-> NoCaseResults]]

\* the closure pushed on `runners` for one suite file, not yet invoked
NewExecutor(flags) ==
  [pc |-> "idle", currentRunner |-> NewRunner(flags),
   calls |-> NoCalls(Len(flags)), results |-> NoResults(Len(flags))]

VARIABLES phase, files, runners, parallelRun, i, sliceRunners, batches, iter,
          consoleErrors

vars == <<phase, files, runners, parallelRun, i, sliceRunners, batches, iter,
          consoleErrors>>

(* ------------------ the runner thunk, lines 144-253 -------------------- *)
Idx(e) == e.currentRunner.currentTestCaseIndex

\* the executor suspends on the awaited call `call`
Await(e, call) == [e EXCEPT !.pc = call]

\* one more call of a suite-level operation / of an operation of the case
\* under the cursor
Call(e, what) == [e EXCEPT !.calls[what] = @ + 1]
CaseCall(e, what) == [e EXCEPT !.calls.cases[Idx(e)][what] = @ + 1]

\* currentRunner.testCases[currentRunner.currentTestCaseIndex].<f> = v
SetCase(e, f, v) == [e EXCEPT !.currentRunner.testCases[Idx(e)][f] = v]
CurrentCase(e) == e.currentRunner.testCases[Idx(e)]
PutCase(e, tc) == [e EXCEPT !.currentRunner.testCases[Idx(e)] = tc]

\* assertIsError: returns for an Error instance, re-throws anything else
AssertIsErrorThrows(o) == o # "Error"

\* the thunk's promise rejects: the throw left the async function
Reject(e) == [e EXCEPT !.pc = "rejected"]
\* the thunk returns
Fulfil(e) == [e EXCEPT !.pc = "fulfilled"]

\* lines 144-153: the thunk is invoked and runs up to the first await
RunnerThunk(e) ==
  Await(Call(Call([e EXCEPT !.currentRunner = StartNow(@)], "runs"),
             "BEFORE_SUITE"),
        "BEFORE_SUITE")

\* lines 241-248: end of the suite, up to the AFTER_SUITE emission
Finalise(e) ==
  Await(Call([e EXCEPT !.currentRunner = GenerateDuration(EndNow(@))],
             "AFTER_SUITE"),
        "AFTER_SUITE")

\* the loop without the test of the enabled flag
ForLoopIgnoringEnabled(e, k) ==
  IF k > Len(e.currentRunner.testCases)
  THEN Finalise(e)
  ELSE Await(CaseCall([e EXCEPT !.currentRunner.currentTestCaseIndex = k],
                      "startDriver"),
             "startDriver")

\* lines 164-170 and 235-240: the loop over the test cases from case k on,
\* up to the next startDriver call or to the end of the suite
RECURSIVE ForLoop(_, _)
ForLoop(e, k) ==
  IF k > Len(e.currentRunner.testCases)
  THEN Finalise(e)
  ELSE LET at == [e EXCEPT !.currentRunner.currentTestCaseIndex = k]
       IN IF at.currentRunner.testCases[k].enabled
          THEN Await(CaseCall(at, "startDriver"), "startDriver")
          ELSE ForLoop(CaseCall(at, "info"), k + 1)

\* lines 222-227: the AFTER_CASE emission
EmitAfterCase(e) == Await(CaseCall(e, "AFTER_CASE"), "AFTER_CASE")

\* lines 154-161: the BEFORE_SUITE emission settled
AfterBeforeSuite(e, o) ==
  IF o = "ok" THEN ForLoop(e, 1)
  ELSE IF AssertIsErrorThrows(o) THEN Reject(e)
  ELSE Fulfil([e EXCEPT !.currentRunner = GenerateDuration(EndNow(@))])

\* lines 170-178: startDriver settled; it is awaited outside every try
AfterStartDriver(e, o) ==
  IF o = "ok" THEN Await(CaseCall(e, "BEFORE_CASE"), "BEFORE_CASE")
  ELSE Reject(e)

\* a BEFORE_CASE failure recorded as a failure of the case and of the Runner
AfterBeforeCaseMarkingFailed(e, o) ==
  IF o = "ok"
  THEN Await(CaseCall(PutCase(e, StartNow(CurrentCase(e))), "body"), "body")
  ELSE IF AssertIsErrorThrows(o) THEN Reject(e)
  ELSE Await(CaseCall([SetCase(SetCase(e, "duration", "zero"),
                               "status", "FAILED")
                         EXCEPT !.currentRunner.status = "FAILED"],
                      "destroyDriver"),
             "destroyDriverBtc")

\* lines 174-183 and 212-218: the BEFORE_CASE emission settled
AfterBeforeCase(e, o) ==
  IF o = "ok"
  THEN Await(CaseCall(PutCase(e, StartNow(CurrentCase(e))), "body"), "body")
  ELSE IF AssertIsErrorThrows(o) THEN Reject(e)
  ELSE Await(CaseCall(SetCase(e, "duration", "zero"), "destroyDriver"),
             "destroyDriverBtc")

\* the body's success path also marking the Runner SUCCESS
AfterBodyMarkingRunner(e, o) ==
  IF o = "ok"
  THEN LET done == GenerateDuration(EndNow(
                      [CurrentCase(e) EXCEPT !.status = "SUCCESS"]))
       IN EmitAfterCase([PutCase(e, done)
                           EXCEPT !.currentRunner.status = "SUCCESS"])
  ELSE IF AssertIsErrorThrows(o) THEN Reject(e)
  ELSE LET failed ==
             [GenerateDuration(EndNow(CurrentCase(e)))
                EXCEPT !.status = "FAILED", !.exception = TRUE]
       IN Await(CaseCall(PutCase(e, failed), "saveScreenshot"),
                "saveScreenshot")

\* lines 183-201 and 212-213: the test body settled.  A value re-thrown by
\* assertIsError(tcError) is caught by the outer catch, whose
\* assertIsError(btcError) re-throws it out of the thunk.
AfterBody(e, o) ==
  IF o = "ok"
  THEN LET done == GenerateDuration(EndNow(
                      [CurrentCase(e) EXCEPT !.status = "SUCCESS"]))
       IN EmitAfterCase(PutCase(e, done))
  ELSE IF AssertIsErrorThrows(o) THEN Reject(e)
  ELSE LET failed ==
             [GenerateDuration(EndNow(CurrentCase(e)))
                EXCEPT !.status = "FAILED", !.exception = TRUE]
       IN Await(CaseCall(PutCase(e, failed), "saveScreenshot"),
                "saveScreenshot")

\* lines 201-211 (and 212-213 for a value that is no Error): saveScreenshot
\* settled
AfterSaveScreenshot(e, o) ==
  LET marked(x) == [x EXCEPT !.currentRunner.status = "FAILED"]
  IN IF o = "ok" THEN EmitAfterCase(marked(SetCase(e, "screenshot", TRUE)))
     ELSE IF AssertIsErrorThrows(o) THEN Reject(e)
     ELSE EmitAfterCase(marked(e))

\* lines 218-227: the destroyDriver of the BEFORE_CASE catch block settled;
\* a throw inside a catch block leaves the thunk
AfterDestroyDriverBtc(e, o) ==
  IF o = "ok" THEN EmitAfterCase(e) ELSE Reject(e)

\* the final destroyDriver called without being awaited
AfterAfterCaseNotAwaiting(e, o) ==
  IF o # "ok" /\ AssertIsErrorThrows(o) THEN Reject(e)
  ELSE ForLoop(CaseCall(e, "destroyDriver"), Idx(e) + 1)

\* lines 228-234: the AFTER_CASE emission settled
AfterAfterCase(e, o) ==
  IF o # "ok" /\ AssertIsErrorThrows(o) THEN Reject(e)
  ELSE Await(CaseCall(e, "destroyDriver"), "destroyDriver")

\* lines 234 and 164: the final destroyDriver of the iteration settled; it
\* is awaited outside every try
AfterDestroyDriver(e, o) ==
  IF o = "ok" THEN ForLoop(e, Idx(e) + 1) ELSE Reject(e)

\* lines 249-253: the AFTER_SUITE emission settled
AfterAfterSuite(e, o) ==
  IF o # "ok" /\ AssertIsErrorThrows(o) THEN Reject(e) ELSE Fulfil(e)

\* the awaited call of pc is recorded as settled with outcome o
Record(e, o) ==
  IF e.pc \in {"BEFORE_SUITE", "AFTER_SUITE"}
  THEN [e EXCEPT !.results[e.pc] = o]
  ELSE [e EXCEPT !.results.cases[Idx(e)][e.pc] = o]

\* the continuation of an executor suspended on pc
Resume(e, o) ==
  CASE e.pc = "BEFORE_SUITE" -> AfterBeforeSuite(e, o)
    [] e.pc = "startDriver" -> AfterStartDriver(e, o)
    [] e.pc = "BEFORE_CASE" -> AfterBeforeCase(e, o)
    [] e.pc = "body" -> AfterBody(e, o)
    [] e.pc = "saveScreenshot" -> AfterSaveScreenshot(e, o)
    [] e.pc = "destroyDriverBtc" -> AfterDestroyDriverBtc(e, o)
    [] e.pc = "AFTER_CASE" -> AfterAfterCase(e, o)
    [] e.pc = "destroyDriver" -> AfterDestroyDriver(e, o)
    [] e.pc = "AFTER_SUITE" -> AfterAfterSuite(e, o)

Settled(e) == e.pc \in {"fulfilled", "rejected"}

(* ----------------- the batch scheduler, lines 256-265 ------------------ *)
Min(a, b) == IF a < b THEN a ELSE b
Max(a, b) == IF a > b THEN a ELSE b

\* Array.prototype.slice(start, end) on an array of length n: the 1-based
\* positions it returns, in order (a negative argument counts from the end)
Slice(n, start, end) ==
  LET from == IF start < 0 THEN Max(n + start, 0) ELSE Min(start, n)
      to == IF end < 0 THEN Max(n + end, 0) ELSE Min(end, n)
  IN [k \in 1..(IF to > from THEN to - from ELSE 0) |-> from + k]

\* the loop index advanced one too far
NextIndexSkipping(j, w) == j + w + 1

\* line 256: i += parallelRun
NextIndex(j, w) == j + w

Range(s) == {s[k] : k \in DOMAIN s}

(* ------------------------------ actions -------------------------------- *)
\* what one discovered suite file holds: the enabled flag of each of its
\* test cases, and the parallelExecution its config loads
SuiteFiles(maxCases) ==
  [enabled : UNION {[1..n -> BOOLEAN] : n \in 0..maxCases},
   parallelExecution : Widths]

\* the result of the glob of line 61: at most maxFiles suite files
Discovered(maxFiles, maxCases) ==
  UNION {[1..m -> SuiteFiles(maxCases)] : m \in 0..maxFiles}

\* lines 61-73: the state when the loop over the files begins
InitWith(discovered) ==
  /\ phase = "load"
  /\ files \in discovered
  /\ runners = <<>>
  /\ parallelRun = 1
  /\ i = 0
  /\ sliceRunners = <<>>
  /\ batches = <<>>
  /\ iter = 0
  /\ consoleErrors = 0

Init == InitWith(Discovered(MaxBatchSuites, MaxBatchCases))

\* the loop over the files with the width taken from the first config only
LoadSuiteKeepingFirst ==
  /\ phase = "load"
  /\ Len(runners) < Len(files)
  /\ LET file == files[Len(runners) + 1]
     IN /\ parallelRun' = IF Len(runners) = 0 THEN file.parallelExecution
                          ELSE parallelRun
        /\ runners' = Append(runners, NewExecutor(file.enabled))
  /\ UNCHANGED <<phase, files, i, sliceRunners, batches, iter, consoleErrors>>

\* lines 75-254: one iteration of the loop over the discovered files
LoadSuite ==
  /\ phase = "load"
  /\ Len(runners) < Len(files)
  /\ LET file == files[Len(runners) + 1]
     IN /\ parallelRun' = file.parallelExecution
        /\ runners' = Append(runners, NewExecutor(file.enabled))
  /\ UNCHANGED <<phase, files, i, sliceRunners, batches, iter, consoleErrors>>

\* line 256, loop initialisation: let i = 0
EnterLoop ==
  /\ phase = "load"
  /\ Len(runners) = Len(files)
  /\ phase' = "sched"
  /\ i' = 0
  /\ UNCHANGED <<files, runners, parallelRun, sliceRunners, batches,
                 iter, consoleErrors>>

\* lines 256-259: the loop test holds; the slice is taken and every thunk
\* of it is invoked, in order, before the scheduler awaits allSettled
StartBatch ==
  /\ phase = "sched"
  /\ i < Len(runners)
  /\ iter < MaxIter
  /\ LET sl == Slice(Len(runners), i, i + parallelRun)
     IN /\ sliceRunners' = sl
        /\ batches' = Append(batches, sl)
        /\ runners' = [s \in 1..Len(runners) |->
                         IF s \in Range(sl) THEN RunnerThunk(runners[s])
                         ELSE runners[s]]
  /\ iter' = iter + 1
  /\ phase' = "await"
  /\ UNCHANGED <<files, parallelRun, i, consoleErrors>>

\* one executor of the running slice resumes from the call it awaits
ExecutorStep(s) ==
  /\ phase = "await"
  /\ ~Settled(runners[s])
  /\ runners[s].pc # "idle"
  /\ \E o \in OutcomesOf(runners[s].pc) : runners' = [runners EXCEPT ![s] = Resume(Record(@, o), o)]
  /\ UNCHANGED <<phase, files, parallelRun, i, sliceRunners, batches,
                 iter, consoleErrors>>

\* a promise that resolves as soon as one thunk of the slice has settled
RaceSettled(rs, sl) == sl = <<>> \/ \E s \in Range(sl) : Settled(rs[s])

\* a promise that resolves only when every thunk of the slice fulfilled
AllFulfilled(rs, sl) == \A s \in Range(sl) : rs[s].pc = "fulfilled"

\* line 259: Promise.allSettled(promises) resolves when every thunk of the
\* slice has settled, fulfilled or rejected
AllSettled(rs, sl) == \A s \in Range(sl) : Settled(rs[s])

\* lines 259-265 and 256: allSettled resolves, each rejection is printed,
\* and the loop index advances
BatchSettled ==
  /\ phase = "await"
  /\ AllSettled(runners, sliceRunners)
  /\ consoleErrors' = consoleErrors
       + Cardinality({k \in DOMAIN sliceRunners :
                        runners[sliceRunners[k]].pc = "rejected"})
  /\ i' = NextIndex(i, parallelRun)
  /\ phase' = "sched"
  /\ UNCHANGED <<files, runners, parallelRun, sliceRunners, batches,
                 iter>>

\* line 256: the loop test fails and the handler returns
ExitLoop ==
  /\ phase = "sched"
  /\ ~(i < Len(runners))
  /\ phase' = "done"
  /\ UNCHANGED <<files, runners, parallelRun, i, sliceRunners,
                 batches, iter, consoleErrors>>

Next ==
  \/ LoadSuite
  \/ EnterLoop
  \/ StartBatch
  \/ \E s \in 1..Len(runners) : ExecutorStep(s)
  \/ BatchSettled
  \/ ExitLoop

Spec == Init /\ [][Next]_vars

\* an invocation that discovers exactly one suite file
InitSuite ==
  InitWith({f \in Discovered(1, MaxCases) : Len(f) = 1})

SpecSuite == InitSuite /\ [][Next]_vars

\* an invocation that discovers two suite files and runs them side by side
\* (the width, loaded with the second file, is two): a suite of up to
\* MaxCases cases beside a suite of at most one case
InitPair ==
  InitWith({f \in Discovered(2, MaxCases) :
              /\ Len(f) = 2
              /\ Len(f[2].enabled) <= 1
              /\ f[1].parallelExecution = 1
              /\ f[2].parallelExecution = 2})

SpecPair == InitPair /\ [][Next]_vars

\* an invocation that discovers three suite files of at most one case each,
\* every config asking for two suites at a time: batches of two and one
InitTrio ==
  InitWith({f \in Discovered(3, 1) :
              /\ Len(f) = 3
              /\ \A k \in 1..3 : f[k].parallelExecution = 2})

SpecTrio == InitTrio /\ [][Next]_vars

\* an invocation whose suites hold no test case: all the scheduler sees of
\* a thunk is when it is invoked and how it settles
InitSched == InitWith(Discovered(MaxSuites, 0))

SpecSched == InitSched /\ [][Next]_vars

(* ======================= properties of the runner ===================== *)
Failed(o) == o \in {"Error", "NonError"}

\* the loop over the test cases has left case k of executor e
Past(e, k) == Idx(e) > k \/ e.calls.AFTER_SUITE > 0

CasesOf(e) == DOMAIN e.currentRunner.testCases

\* C1: in every run in which the BEFORE_SUITE emission fails the executor
\* stops at once: no driver is started, no case hook is emitted, no body is
\* invoked, every case record is as it was created, AFTER_SUITE is never
\* emitted, and the thunk returns instead of rejecting.
C1_BeforeSuiteFailureStops ==
  \A s \in DOMAIN runners :
    LET e == runners[s]
    IN Failed(e.results.BEFORE_SUITE) =>
         /\ \A k \in CasesOf(e) :
              /\ e.calls.cases[k] = NoCaseCalls
              /\ e.currentRunner.testCases[k]
                   = NewTestCase(e.currentRunner.testCases[k].enabled)
         /\ e.calls.AFTER_SUITE = 0
         /\ e.pc = "fulfilled"

\* C2: in every run in which the BEFORE_SUITE emission fails, the Runner's
\* status is FAILED when the executor has finished, and its end time and
\* duration are recorded.
C2_BeforeSuiteFailureMarksRunnerFailed ==
  \A s \in DOMAIN runners :
    LET e == runners[s]
    IN (Settled(e) /\ Failed(e.results.BEFORE_SUITE)) =>
         /\ e.currentRunner.status = "FAILED"
         /\ e.currentRunner.endTime
         /\ e.currentRunner.duration = "computed"

\* C3: for every enabled case whose BEFORE_CASE emission fails, the body is
\* never invoked, the case's duration is zero, AFTER_CASE is emitted exactly
\* once for the case, and the executor goes on to the next case.
C3_BeforeCaseFailureSkipsBody ==
  \A s \in DOMAIN runners :
    LET e == runners[s]
    IN \A k \in CasesOf(e) :
         Failed(e.results.cases[k].BEFORE_CASE) =>
           /\ e.calls.cases[k].body = 0
           /\ e.currentRunner.testCases[k].duration = "zero"
           /\ e.calls.cases[k].AFTER_CASE <= 1
           /\ Past(e, k) => e.calls.cases[k].AFTER_CASE = 1
           /\ Settled(e) => Past(e, k)

\* C4: every driver the executor has started for a case is destroyed exactly
\* once: destroyDriver is never called twice for it, and it has been called
\* once when the executor has left the case or has finished.
C4_DriverDestroyedExactlyOnce ==
  \A s \in DOMAIN runners :
    LET e == runners[s]
    IN \A k \in CasesOf(e) :
         e.results.cases[k].startDriver = "ok" =>
           /\ e.calls.cases[k].destroyDriver <= 1
           /\ (Past(e, k) \/ Settled(e)) => e.calls.cases[k].destroyDriver = 1

\* C5: for every enabled case whose BEFORE_CASE emission succeeds the record
\* follows the body: SUCCESS if the body returns; FAILED with its message,
\* and the Runner FAILED, if the body fails.  A failing screenshot capture
\* changes none of this and stops neither AFTER_CASE, nor the release of the
\* driver, nor the remaining cases.
C5_OutcomeFollowsBody ==
  \A s \in DOMAIN runners :
    LET e == runners[s]
    IN \A k \in CasesOf(e) :
         LET tc == e.currentRunner.testCases[k]
             res == e.results.cases[k]
             capturing == Idx(e) = k /\ e.pc = "saveScreenshot"
         IN res.BEFORE_CASE = "ok" =>
              /\ res.body = "ok" => tc.status = "SUCCESS"
              /\ Failed(res.body) => tc.status = "FAILED" /\ tc.exception
              /\ (Failed(res.body) /\ ~capturing) =>
                   e.currentRunner.status = "FAILED"
              /\ Failed(res.saveScreenshot) =>
                   /\ tc.status = "FAILED"
                   /\ e.calls.cases[k].AFTER_CASE = 1
                   /\ res.AFTER_CASE \in {"ok", "Error"} =>
                        e.calls.cases[k].destroyDriver = 1
                   /\ res.destroyDriver = "ok" => Past(e, k)

\* C6: whatever a test body throws, the throw does not leave the executor:
\* the case and the Runner are marked FAILED, the thunk does not reject, and
\* AFTER_CASE, the release of the driver, the remaining cases and AFTER_SUITE
\* still follow.
C6_BodyErrorStaysInExecutor ==
  \A s \in DOMAIN runners :
    LET e == runners[s]
    IN \A k \in CasesOf(e) :
         Failed(e.results.cases[k].body) =>
           /\ e.pc # "rejected"
           /\ e.currentRunner.testCases[k].status = "FAILED"
           /\ e.calls.cases[k].saveScreenshot = 1
           /\ e.results.cases[k].saveScreenshot # "none" =>
                /\ e.currentRunner.status = "FAILED"
                /\ e.calls.cases[k].AFTER_CASE = 1
           /\ Settled(e) =>
                /\ e.calls.cases[k].destroyDriver = 1
                /\ e.calls.AFTER_SUITE = 1

\* C7: in every run in which BEFORE_SUITE succeeds, AFTER_SUITE is emitted
\* exactly once, after the last case has been processed, whatever happens in
\* the driver calls, the case hooks, the bodies and the screenshot capture.
C7_AfterSuiteUnlessBeforeSuiteFails ==
  \A s \in DOMAIN runners :
    LET e == runners[s]
    IN e.results.BEFORE_SUITE = "ok" =>
         /\ e.calls.AFTER_SUITE <= 1
         /\ Settled(e) => e.calls.AFTER_SUITE = 1
         /\ e.calls.AFTER_SUITE = 1 =>
              \A k \in CasesOf(e) :
                IF e.currentRunner.testCases[k].enabled
                THEN e.results.cases[k].destroyDriver = "ok"
                ELSE e.calls.cases[k].info = 1

\* C8: for every disabled case the executor starts no driver, emits neither
\* BEFORE_CASE nor AFTER_CASE, does not invoke the body, and goes straight on
\* to the case that follows (or to the end of the suite).
C8_DisabledCaseIsSkipped ==
  \A s \in DOMAIN runners :
    LET e == runners[s]
    IN \A k \in CasesOf(e) :
         ~e.currentRunner.testCases[k].enabled =>
           /\ e.calls.cases[k].startDriver = 0
           /\ e.calls.cases[k].BEFORE_CASE = 0
           /\ e.calls.cases[k].body = 0
           /\ e.calls.cases[k].AFTER_CASE = 0
           /\ e.calls.cases[k].destroyDriver = 0
           /\ e.calls.cases[k].info <= 1
           /\ e.calls.cases[k].info = 1 =>
                IF k = Len(e.currentRunner.testCases)
                THEN e.calls.AFTER_SUITE = 1
                ELSE /\ Idx(e) > k
                     /\ e.calls.cases[k + 1].startDriver
                          + e.calls.cases[k + 1].info = 1

\* a disabled case was passed and the driver of the next case was started
C8_Witness ==
  \E s \in DOMAIN runners :
    LET e == runners[s]
    IN \E k \in CasesOf(e) :
         /\ ~e.currentRunner.testCases[k].enabled
         /\ e.calls.cases[k].info = 1
         /\ k < Len(e.currentRunner.testCases)
         /\ e.calls.cases[k + 1].startDriver = 1

\* C9: for every disabled case the record's status is SKIPPED when the
\* executor has finished.
C9_DisabledCaseEndsSkipped ==
  \A s \in DOMAIN runners :
    LET e == runners[s]
    IN Settled(e) =>
         \A k \in CasesOf(e) :
           ~e.currentRunner.testCases[k].enabled =>
             e.currentRunner.testCases[k].status = "SKIPPED"

(* ====================== properties of the scheduler =================== *)
\* the b-th consecutive slice of width w of the positions 1..n
ConsecutiveSlice(n, w, b) ==
  LET first == (b - 1) * w + 1
      last == Min(b * w, n)
  IN [k \in 1..(last - first + 1) |-> first + k - 1]

Ceil(n, w) == (n + w - 1) \div w

\* C10: for n executors and a width w >= 1 the scheduler runs exactly
\* ceil(n/w) batches, the b-th being the b-th consecutive slice of at most w
\* executors, in order; every executor is started exactly once and is in
\* exactly one batch.
C10_BatchesAreConsecutiveSlices ==
  (phase # "load" /\ parallelRun >= 1) =>
    LET n == Len(runners)
        w == parallelRun
    IN /\ \A b \in DOMAIN batches :
            /\ batches[b] = ConsecutiveSlice(n, w, b)
            /\ Len(batches[b]) <= w
       /\ \A s \in DOMAIN runners :
            /\ runners[s].calls.runs
                 = Cardinality({b \in DOMAIN batches : s \in Range(batches[b])})
            /\ runners[s].calls.runs <= 1
       /\ phase = "done" =>
            /\ Len(batches) = Ceil(n, w)
            /\ \A s \in DOMAIN runners : runners[s].calls.runs = 1

\* three executors were run with width two, in the batches [1, 2] and [3]
C10_Witness ==
  /\ phase = "done"
  /\ Len(runners) = 3
  /\ parallelRun = 2
  /\ batches = <<<<1, 2>>, <<3>>>>

\* the executors of the batches before the last one taken
EarlierBatches == UNION {Range(batches[b]) : b \in 1..(Len(batches) - 1)}

\* C11: no executor of batch k+1 is started before every executor of batch
\* k has settled: whenever a batch has been taken, every executor of every
\* earlier batch is settled, and an executor that has been started and has
\* not settled is in the last batch taken.
C11_SchedulerBarrier ==
  /\ \A s \in EarlierBatches : Settled(runners[s])
  /\ \A s \in DOMAIN runners :
       (runners[s].pc # "idle" /\ ~Settled(runners[s])) =>
         /\ batches # <<>>
         /\ s \in Range(batches[Len(batches)])

\* the second batch runs after a first batch of two executors
C11_Witness ==
  /\ Len(batches) = 2
  /\ Len(batches[1]) = 2
  /\ \E s \in Range(batches[2]) : runners[s].pc = "BEFORE_SUITE"
  /\ runners[1].pc # runners[2].pc

\* C12: an executor that rejects neither cancels the other executors of its
\* batch nor stops the scheduler: every other started executor can still
\* take its next step, allSettled still resolves once the whole batch has
\* settled, the next batch is still taken, and when the loop of a width
\* >= 1 has ended every executor was started once and has settled, each
\* rejection having been printed and none re-thrown.
C12_RejectionIsContained ==
  (\E s \in DOMAIN runners : runners[s].pc = "rejected") =>
    /\ \A t \in DOMAIN runners :
         (phase = "await" /\ runners[t].pc # "idle" /\ ~Settled(runners[t]))
           => ENABLED ExecutorStep(t)
    /\ (phase = "await" /\ \A t \in Range(sliceRunners) : Settled(runners[t]))
         => ENABLED BatchSettled
    /\ (phase = "sched" /\ i < Len(runners) /\ iter < MaxIter)
         => ENABLED StartBatch
    /\ (phase = "sched" /\ i >= Len(runners)) => ENABLED ExitLoop
    /\ (phase = "done" /\ parallelRun >= 1) =>
         /\ \A t \in DOMAIN runners :
              Settled(runners[t]) /\ runners[t].calls.runs = 1
         /\ consoleErrors
              = Cardinality({t \in DOMAIN runners : runners[t].pc = "rejected"})

\* the first executor of a batch of two rejected, the second one fulfilled,
\* and the executor of the next batch ran to its end
C12_Witness ==
  /\ phase = "done"
  /\ batches = <<<<1, 2>>, <<3>>>>
  /\ runners[1].pc = "rejected"
  /\ runners[2].pc = "fulfilled"
  /\ runners[3].pc = "fulfilled"
  /\ consoleErrors = 1

(* ====================== properties of the statuses ==================== *)
\* C13: once the Runner's status is FAILED no later step changes it: it is
\* never set back to SUCCESS (nor to anything else) by a later successful
\* case, by the AFTER_CASE and AFTER_SUITE hooks, or by the end of the suite.
C13_RunnerFailedIsSticky ==
  [][\A s \in DOMAIN runners :
       runners[s].currentRunner.status = "FAILED" =>
         /\ runners'[s].currentRunner.status # "SUCCESS"
         /\ runners'[s].currentRunner.status = "FAILED"]_vars

\* the first case failed, the second one succeeded afterwards, and the
\* suite ended with the Runner still FAILED
C13_Witness ==
  \E s \in DOMAIN runners :
    LET e == runners[s]
    IN /\ e.pc = "fulfilled"
       /\ Len(e.currentRunner.testCases) >= 2
       /\ e.currentRunner.testCases[1].status = "FAILED"
       /\ e.currentRunner.testCases[2].status = "SUCCESS"
       /\ e.results.AFTER_SUITE = "ok"
       /\ e.currentRunner.status = "FAILED"

\* C14: a suite run in which BEFORE_SUITE succeeds and every enabled case's
\* body returns normally (any number of cases being disabled) ends with the
\* Runner's status SUCCESS.
C14_CleanRunEndsSuccess ==
  \A s \in DOMAIN runners :
    LET e == runners[s]
    IN (/\ e.pc = "fulfilled"
        /\ e.results.BEFORE_SUITE = "ok"
        /\ \A k \in CasesOf(e) :
             e.currentRunner.testCases[k].enabled =>
               e.results.cases[k].body = "ok")
         => e.currentRunner.status = "SUCCESS"

\* C15: a failure of an after-hook is only logged.  When the AFTER_CASE
\* emission fails, no status of the Runner or of its cases changes, the
\* driver is released next, and the suite goes on once it is released; when
\* the AFTER_SUITE emission fails, no status changes and the thunk returns
\* instead of rejecting.
C15_AfterHookFailureIsLogOnly ==
  [][\A s \in DOMAIN runners :
       LET e == runners[s]
           f == runners'[s]
       IN /\ (e.pc = "AFTER_CASE" /\ Failed(f.results.cases[Idx(e)].AFTER_CASE))
               => /\ f.currentRunner = e.currentRunner
                  /\ f.pc = "destroyDriver"
          /\ (e.pc = "AFTER_SUITE" /\ Failed(f.results.AFTER_SUITE))
               => /\ f.currentRunner = e.currentRunner
                  /\ f.pc = "fulfilled"
          /\ \A k \in CasesOf(e) :
               (/\ Failed(e.results.cases[k].AFTER_CASE)
                /\ e.results.cases[k].destroyDriver = "ok") => Past(e, k)]_vars

(* =================== properties of the order of steps ================= *)
\* case k of executor e is over: it was skipped, or its driver was released
\* by the destroyDriver that ends the iteration
CaseOver(e, k) ==
  IF e.currentRunner.testCases[k].enabled
  THEN e.results.cases[k].destroyDriver = "ok"
  ELSE e.calls.cases[k].info = 1

\* the driver of case k was asked to start and no destroyDriver of it has
\* succeeded yet
DriverInUse(e, k) ==
  /\ e.calls.cases[k].startDriver >= 1
  /\ e.results.cases[k].destroyDriverBtc # "ok"
  /\ e.results.cases[k].destroyDriver # "ok"

\* C16: within one suite run the steps are strictly sequential, whatever
\* the other executors of the batch do: BEFORE_SUITE comes first, each
\* case's BEFORE_CASE comes before its AFTER_CASE, the cases are taken in
\* definition order, each only when the one before it is over and its driver
\* released, AFTER_SUITE comes after the last case, no hook of a case is
\* emitted twice, and at most one driver of the suite is in use at any time.
C16_SuiteStepsAreSequential ==
  \A s \in DOMAIN runners :
    LET e == runners[s]
    IN /\ e.calls.BEFORE_SUITE <= 1 /\ e.calls.AFTER_SUITE <= 1
       /\ e.calls.AFTER_SUITE = 1 =>
            /\ e.results.BEFORE_SUITE = "ok"
            /\ \A k \in CasesOf(e) : CaseOver(e, k)
       /\ \A k \in CasesOf(e) :
            /\ e.calls.cases[k] # NoCaseCalls =>
                 /\ e.results.BEFORE_SUITE = "ok"
                 /\ \A j \in 1..(k - 1) : CaseOver(e, j)
            /\ e.calls.cases[k].startDriver <= 1
            /\ e.calls.cases[k].BEFORE_CASE <= 1
            /\ e.calls.cases[k].AFTER_CASE <= 1
            /\ e.calls.cases[k].BEFORE_CASE = 1 =>
                 e.results.cases[k].startDriver = "ok"
            /\ e.calls.cases[k].AFTER_CASE = 1 =>
                 e.results.cases[k].BEFORE_CASE \in {"ok", "Error"}
       /\ Cardinality({k \in CasesOf(e) : DriverInUse(e, k)}) <= 1

\* two executors of one batch are both under way: the first one has started
\* the driver of its second case while the second one awaits a test body
C16_Witness ==
  /\ phase = "await"
  /\ Len(runners) = 2
  /\ Len(runners[1].currentRunner.testCases) >= 2
  /\ runners[1].results.cases[1].destroyDriver = "ok"
  /\ runners[1].pc = "startDriver"
  /\ Idx(runners[1]) = 2
  /\ runners[2].pc = "body"

(* ================== properties across the executors =================== *)
\* a test body of executor e has thrown
BodyFailed(e) == \E k \in CasesOf(e) : Failed(e.results.cases[k].body)

\* no call of executor e has failed
Clean(e) ==
  /\ ~Failed(e.results.BEFORE_SUITE) /\ ~Failed(e.results.AFTER_SUITE)
  /\ \A k \in CasesOf(e) :
       \A c \in DOMAIN NoCaseResults : ~Failed(e.results.cases[k][c])

\* C17: the failure of one executor is isolated.  While the executors of a
\* batch run, a step of one suite writes the Runner and case records of that
\* suite only; and when the handler returns, a suite whose test body threw
\* has ended FAILED while every suite in which nothing failed has ended
\* SUCCESS (3 suites, width 2, the body of suite 2 throws: suite 2 FAILED,
\* suites 1 and 3 unaffected).
C17_FailureIsIsolated ==
  [][/\ phase = "await" =>
          \A s \in DOMAIN runners :
            runners'[s] # runners[s] =>
              \A t \in DOMAIN runners \ {s} : runners'[t] = runners[t]
     /\ phase' = "done" =>
          \A s \in DOMAIN runners' :
            /\ BodyFailed(runners'[s]) =>
                 runners'[s].currentRunner.status = "FAILED"
            /\ Clean(runners'[s]) =>
                 runners'[s].currentRunner.status = "SUCCESS"]_vars

\* the parallelExecution of the config loaded for the last discovered file,
\* 1 when no file is discovered
LastWidth ==
  IF Len(files) = 0 THEN 1 ELSE files[Len(files)].parallelExecution

\* C18: once the files are loaded, the width used for every batch is the
\* parallelExecution of the config of the last discovered suite file,
\* whatever the earlier configs asked for, and 1 when there is no file:
\* the b-th batch is the slice that starts at (b - 1) times that width and
\* spans that width.
C18_WidthIsLastConfig ==
  phase # "load" =>
    /\ parallelRun = LastWidth
    /\ \A b \in DOMAIN batches :
         batches[b] = Slice(Len(runners), (b - 1) * LastWidth,
                            (b - 1) * LastWidth + LastWidth)

\* three files, the first config asking for one suite at a time and the last
\* for two: the run is over and its batches were suites 1-2, then suite 3
C18_Witness ==
  /\ phase = "done"
  /\ Len(files) = 3
  /\ files[1].parallelExecution = 1
  /\ files[3].parallelExecution = 2
  /\ batches = <<(<<1, 2>>), (<<3>>)>>

\* C19: the scheduler loop terminates for every number of executors and
\* every integer width the last config can supply: each time a batch has
\* settled the loop index is strictly greater than before, and when the loop
\* exits every executor has been started.
C19_LoopIndexIncreases ==
  [][/\ (phase = "await" /\ phase' = "sched") => i' > i
     /\ phase' = "done" =>
          \A s \in DOMAIN runners' : runners'[s].pc # "idle"]_vars

(* ================ properties of a failing BEFORE_CASE ================= *)
\* C20: a failure of the BEFORE_CASE emission is not recorded as a failure.
\* The case keeps the status it had before the run, its start is never
\* recorded and its body is never called; and the Runner's status is FAILED
\* only when a test body failed, so a suite whose only errors are
\* BEFORE_CASE failures does not end FAILED.
C20_BeforeCaseFailureIsNotRecorded ==
  \A s \in DOMAIN runners :
    LET e == runners[s]
    IN /\ \A k \in CasesOf(e) :
            Failed(e.results.cases[k].BEFORE_CASE) =>
              /\ e.currentRunner.testCases[k].status = InitialCaseStatus
              /\ ~e.currentRunner.testCases[k].startTime
              /\ e.calls.cases[k].body = 0
       /\ e.currentRunner.status = "FAILED" => BodyFailed(e)

\* a suite whose BEFORE_CASE emission failed for a case has run to its end,
\* AFTER_SUITE included, no body having failed: the Runner is not FAILED
C20_Witness ==
  \E s \in DOMAIN runners :
    LET e == runners[s]
    IN /\ e.pc = "fulfilled"
       /\ e.results.AFTER_SUITE = "ok"
       /\ \E k \in CasesOf(e) : e.results.cases[k].BEFORE_CASE = "Error"
       /\ ~BodyFailed(e)
       /\ e.currentRunner.status # "FAILED"

====
